---- MODULE Spec2Model ----
(***************************************************************************)
(* A model of enn/supervised/multiloss_experiment.py: MultilossExperiment, *)
(* an SGD experiment that schedules several losses on one shared           *)
(* TrainingState, with one shared random stream and one step counter.      *)
(*                                                                         *)
(* The experiment object is the record `exp` (Python's self).  The         *)
(* methods are operators from a record to the record after the call; the   *)
(* train loop is cut at its loop heads, `exp.pc` holding the position.     *)
(* Fields of exp that the program does not have (trainers, draws, asked,   *)
(* sumN, aborted, last) only record what was given and what happened and   *)
(* are never read by the operations.                                       *)
(***************************************************************************)
EXTENDS Integers, Sequences, FiniteSets, TLC

VARIABLES exp

vars == <<exp>>

(***************************************************************************)
(* Bounds of the model.                                                    *)
(***************************************************************************)
\* the step counter stops the model at this value
MaxStep == 4
\* the largest num_batches given to one call of train
MaxBatches == 2
\* parameters, optimizer states, losses and outputs are numbers below this
ParamSpace == 997
\* the step counter stops the long runs (SpecLong) at this value
LongSteps == 9

\* the seeds given to the constructor
Seeds == {0, 1}
\* the (train_log_freq, eval_log_freq) pairs given to the constructor
LogFreqs == {<<1, 1>>, <<3, 2>>}
\* the eval_datasets given to the constructor: None, or a dict, whose keys
\* are listed in insertion order
EvalDatasets == {<<>>, <<"e1">>, <<"e1", "e2">>}
\* the inputs given to predict, the seeds given to predict and loss
Inputs == {1, 2}
CallSeeds == {0, 7}
\* the schedules a trainer may have
Schedules == {"always", "never", "even"}
\* the batches on which a loss function raises (a malformed batch): none,
\* or the third batch of dataset dA
BadBatchSets == {{}, {[ds |-> "dA", idx |-> 3]}}

(***************************************************************************)
(* The caller's trainers.  Two MultilossTrainer bindings A and B, each     *)
(* with its own loss function, dataset and name, in every order, each      *)
(* with every schedule; the empty list also.                               *)
(***************************************************************************)
MultilossTrainer(nm, sched) ==
  [loss_fn |-> "loss" \o nm, dataset |-> "d" \o nm,
   should_train |-> sched, name |-> nm]

TrainerLists ==
  {<<>>}
  \cup {<<MultilossTrainer("A", s)>> : s \in Schedules}
  \cup {<<MultilossTrainer("A", s[1]), MultilossTrainer("B", s[2])>> :
          s \in Schedules \X Schedules}
  \cup {<<MultilossTrainer("B", s[1]), MultilossTrainer("A", s[2])>> :
          s \in Schedules \X Schedules}

\* t.should_train(step) for the schedules above
should_train(sched, step) ==
  CASE sched = "always" -> TRUE
    [] sched = "never" -> FALSE
    [] sched = "even" -> step % 2 = 0

(***************************************************************************)
(* The collaborators: random keys, datasets, network, optimizer, losses.   *)
(* They are deterministic stubs over numbers.                              *)
(***************************************************************************)
\* jax.random.PRNGKey(seed): the root key of a seed
PRNGKey(seed) == <<seed, 0>>

\* the n-th key (n = 1, 2, ...) that hk.PRNGSequence(seed) hands out
key_at(seed, n) == <<seed, n>>

KeyNum(key) == key[1] * 17 + key[2]

DsNum(ds) ==
  CASE ds = "dA" -> 1 [] ds = "dB" -> 2 [] ds = "e1" -> 3 [] ds = "e2" -> 4
    [] OTHER -> 5

BatchNum(batch) == DsNum(batch.ds) * 13 + batch.idx

LossNum(loss_fn) == IF loss_fn = "lossA" THEN 1 ELSE 2

\* enn.indexer(key)
indexer(key) == (KeyNum(key) * 3 + 1) % ParamSpace

\* enn.init(key, x, index); x is the x field of a batch
enn_init(key, x, index) == (KeyNum(key) * 5 + BatchNum(x) * 7 + index) % ParamSpace

\* enn.apply(params, inputs, index)
enn_apply(params, inputs, index) == (params * 3 + inputs * 11 + index) % ParamSpace

\* optimizer.init(params)
optimizer_init(params) == (params + 1) % ParamSpace

\* optimizer.update(grads, opt_state) = (updates, new_opt_state)
optimizer_update(grads, opt_state) ==
  <<(grads + opt_state) % ParamSpace, (opt_state * 3 + grads + 1) % ParamSpace>>

\* optax.apply_updates(params, updates)
apply_updates(params, updates) == (params * 2 + updates + 1) % ParamSpace

\* d.update(u) of a Python dict: the keys of u are written over those of d
\* an update in which the entries already present win
dict_update_keep(d, u) ==
  [k \in (DOMAIN d) \cup (DOMAIN u) |-> IF k \in DOMAIN d THEN d[k] ELSE u[k]]

dict_update(d, u) ==
  [k \in (DOMAIN d) \cup (DOMAIN u) |-> IF k \in DOMAIN u THEN u[k] ELSE d[k]]

\* loss_fn(enn, params, batch, key) = (loss, metrics).  lossA reports an
\* accuracy; lossB reports its own "loss", "step", "dataset", "sgd" and
\* "trainer" entries, and a "acc" entry that no tag names.
LossValue(loss_fn, params, batch, key) ==
  (LossNum(loss_fn) * 101 + params * 7 + BatchNum(batch) * 3 + KeyNum(key))
    % ParamSpace

loss_fn_call(loss_fn, params, batch, key) ==
  LET loss == LossValue(loss_fn, params, batch, key)
  IN  <<loss,
        IF loss_fn = "lossA"
          THEN [acc |-> (loss + 1) % ParamSpace]
          ELSE [loss |-> (loss + 2) % ParamSpace, step |-> -1,
                dataset |-> "raw", sgd |-> (loss % 2 = 0),
                trainer |-> "raw", acc |-> (loss + 1) % ParamSpace]>>

\* the pure loss of a trainer: functools.partial(t.loss_fn, enn)
pure_loss_call(pure_loss, params, batch, key) ==
  loss_fn_call(pure_loss, params, batch, key)

\* the gradient that jax.value_and_grad computes with the loss
Grads(pure_loss, params, batch, key) ==
  (LossValue(pure_loss, params, batch, key) * 5 + params + 3) % ParamSpace

\* TrainingState(params, opt_state)
TrainingState(params, opt_state) == [params |-> params, opt_state |-> opt_state]

\* sgd_step(pure_loss, state, batch, key) = (new_state, metrics)
sgd_step(pure_loss, state, batch, key) ==
  LET lm == pure_loss_call(pure_loss, state.params, batch, key)
      grads == Grads(pure_loss, state.params, batch, key)
      metrics == dict_update(lm[2], [loss |-> lm[1]])
      upd == optimizer_update(grads, state.opt_state)
      new_params == apply_updates(state.params, upd[1])
      new_state == TrainingState(new_params, upd[2])
  IN  <<new_state, metrics>>

\* a _purify_trainers that builds its list from the back
_purify_trainers_reversed(trainers) ==
  [n \in 1..Len(trainers) |->
     [pure_loss |-> trainers[Len(trainers) + 1 - n].loss_fn,
      dataset |-> trainers[Len(trainers) + 1 - n].dataset,
      should_train |-> trainers[Len(trainers) + 1 - n].should_train,
      name |-> trainers[Len(trainers) + 1 - n].name]]

\* _purify_trainers(trainers, enn)
_purify_trainers(trainers) ==
  [n \in 1..Len(trainers) |->
     [pure_loss |-> trainers[n].loss_fn,
      dataset |-> trainers[n].dataset,
      should_train |-> trainers[n].should_train,
      name |-> trainers[n].name]]

\* next(dataset): the batch drawn from a dataset whose cursor is at n
next_batch(ds, n) == [ds |-> ds, idx |-> n + 1]

\* the record of one draw of a batch and a key
Draw(op, trainer, batch, key, step, pre, post, ok) ==
  [op |-> op, trainer |-> trainer, batch |-> batch, key |-> key,
   step |-> step, pre |-> pre, post |-> post, ok |-> ok]

NoBatch == [ds |-> "-", idx |-> 0]
NoCall == [op |-> "-", arg |-> 0, seed |-> 0, ret |-> [none |-> 0]]
NoState == TrainingState(0, 0)
AllDatasets == {"dA", "dB", "e1", "e2"}

\* whether sgd_step raises: the loss function raises on a malformed batch
Raises(self, batch) == batch \in self.bad

\* a loop that trains the first trainer of the list only
fires_first_only(self, t) ==
  should_train(t.should_train, self.step) /\ self.i = 1

\* a loop that forgets to ask should_train
fires_always(self, t) == TRUE

\* `if t.should_train(self.step)`
fires(self, t) == should_train(t.should_train, self.step)

\* next(self.rng): the key handed out when self.rng keys were drawn before
next_key(self) == key_at(self.seed, self.rng + 1)

\* a stream that stays where it is when a key is taken
rng_stuck(self) == self.rng

\* next(self.rng): the position of the stream after it handed out a key
rng_advance(self) == self.rng + 1

\* a training log that goes by the evaluation frequency
train_log_due_by_eval_freq(self) == self.step % self.eval_log_freq = 0

\* a training log that counts the iterations left in the call, not the
\* step counter
train_log_due_in_call(self) == self.left % self.train_log_freq = 0

\* `if self.step % self._train_log_freq == 0`
train_log_due(self) == self.step % self.train_log_freq = 0

\* an evaluation that goes by the training log frequency
eval_due_by_train_freq(self) ==
  Len(self.eval_datasets) > 0 /\ self.step % self.train_log_freq = 0

\* an evaluation that leaves out the round of the first step
eval_due_after_first_step(self) ==
  /\ Len(self.eval_datasets) > 0
  /\ self.step % self.eval_log_freq = 0
  /\ self.step > 1

\* `if self._eval_datasets and self.step % self._eval_log_freq == 0`
eval_due(self) ==
  Len(self.eval_datasets) > 0 /\ self.step % self.eval_log_freq = 0

\* a loop that catches the exception and goes on to the next trainer
raise_in_train_swallowed(self) == [self EXCEPT !.i = @ + 1]

\* an exception that undoes the iteration: the step, the batch and the key
raise_in_train_rolls_back(self) ==
  [self EXCEPT !.pc = "idle", !.aborted = TRUE,
               !.step = @ - 1, !.rng = @ - 1,
               !.cursor[self.pure_trainers[self.i].dataset] = @ - 1]

\* an exception leaves train: nothing of the call runs after it
raise_in_train(self) == [self EXCEPT !.pc = "idle", !.aborted = TRUE]

(***************************************************************************)
(* MultilossExperiment.__init__.  With no trainer, pure_trainers[0] raises *)
(* and no experiment exists: pc = "raised", step and state never assigned  *)
(* (written -1 and NoState).                                               *)
(***************************************************************************)
Unconstructed(trainers, seed, train_log_freq, eval_datasets, eval_log_freq, bad) ==
  [trainers |-> trainers,
   pure_trainers |-> _purify_trainers(trainers),
   seed |-> seed, rng |-> 0,
   eval_datasets |-> eval_datasets, eval_log_freq |-> eval_log_freq,
   train_log_freq |-> train_log_freq,
   state |-> NoState, step |-> -1, log |-> <<>>,
   cursor |-> [d \in AllDatasets |-> 0], bad |-> bad,
   pc |-> "raised", left |-> 0, i |-> 0, j |-> 0, k |-> 0,
   draws |-> <<>>, asked |-> <<>>, sumN |-> 0, aborted |-> FALSE,
   last |-> NoCall]

\* a constructor that builds an experiment without parameters when it is
\* given no trainer
MultilossExperiment_without_trainers(trainers, seed, train_log_freq, eval_datasets, eval_log_freq, bad) ==
  LET self == Unconstructed(trainers, seed, train_log_freq, eval_datasets,
                            eval_log_freq, bad)
  IN  IF Len(self.pure_trainers) = 0
        THEN [self EXCEPT !.step = 0, !.pc = "idle"]
      ELSE
        LET ds == self.pure_trainers[1].dataset
            batch == next_batch(ds, self.cursor[ds])
            key1 == next_key(self)
            index == indexer(key1)
            drawn1 == [self EXCEPT !.rng = rng_advance(self)]
            key2 == next_key(drawn1)
            params == enn_init(key2, batch, index)
            opt_state == optimizer_init(params)
            state == TrainingState(params, opt_state)
        IN  [self EXCEPT
               !.cursor[ds] = @ + 1,
               !.rng = rng_advance(drawn1),
               !.state = state,
               !.step = 0,
               !.pc = "idle",
               !.draws = <<Draw("indexer", "-", NoBatch, key1, 0, NoState, NoState, TRUE),
                           Draw("init", "-", batch, key2, 0, NoState, state, TRUE)>>]

\* a constructor that takes its first batch from the last trainer's dataset
MultilossExperiment_last_dataset(trainers, seed, train_log_freq, eval_datasets, eval_log_freq, bad) ==
  LET self == Unconstructed(trainers, seed, train_log_freq, eval_datasets,
                            eval_log_freq, bad)
  IN  IF Len(self.pure_trainers) = 0 THEN self
      ELSE
        LET ds == self.pure_trainers[Len(self.pure_trainers)].dataset
            batch == next_batch(ds, self.cursor[ds])
            key1 == next_key(self)
            index == indexer(key1)
            drawn1 == [self EXCEPT !.rng = rng_advance(self)]
            key2 == next_key(drawn1)
            params == enn_init(key2, batch, index)
            opt_state == optimizer_init(params)
            state == TrainingState(params, opt_state)
        IN  [self EXCEPT
               !.cursor[ds] = @ + 1,
               !.rng = rng_advance(drawn1),
               !.state = state,
               !.step = 0,
               !.pc = "idle",
               !.draws = <<Draw("indexer", "-", NoBatch, key1, 0, NoState, NoState, TRUE),
                           Draw("init", "-", batch, key2, 0, NoState, state, TRUE)>>]

MultilossExperiment(trainers, seed, train_log_freq, eval_datasets, eval_log_freq, bad) ==
  LET self == Unconstructed(trainers, seed, train_log_freq, eval_datasets,
                            eval_log_freq, bad)
  IN  IF Len(self.pure_trainers) = 0 THEN self
      ELSE
        LET ds == self.pure_trainers[1].dataset
            batch == next_batch(ds, self.cursor[ds])
            key1 == next_key(self)
            index == indexer(key1)
            drawn1 == [self EXCEPT !.rng = rng_advance(self)]
            key2 == next_key(drawn1)
            params == enn_init(key2, batch, index)
            opt_state == optimizer_init(params)
            state == TrainingState(params, opt_state)
        IN  [self EXCEPT
               !.cursor[ds] = @ + 1,
               !.rng = rng_advance(drawn1),
               !.state = state,
               !.step = 0,
               !.pc = "idle",
               !.draws = <<Draw("indexer", "-", NoBatch, key1, 0, NoState, NoState, TRUE),
                           Draw("init", "-", batch, key2, 0, NoState, state, TRUE)>>]

(***************************************************************************)
(* MultilossExperiment.train, cut at its loop heads.                       *)
(*   "idle"     no call is running                                         *)
(*   "loop"     at `for _ in range(num_batches)`, left iterations to go    *)
(*   "trainers" at `for t in self.pure_trainers`, about to take trainer i  *)
(*   "eval"     in the evaluation loops, at dataset j and trainer k        *)
(***************************************************************************)
\* the call train(num_batches)
train(self, num_batches) ==
  [self EXCEPT !.pc = "loop", !.left = num_batches,
               !.sumN = @ + num_batches, !.last = NoCall]

\* a loop that counts the step once per call, when it returns, and not
\* once per iteration
loop_iter_counts_calls(self) ==
  IF self.left = 0
    THEN [self EXCEPT !.pc = "idle", !.step = @ + 1]
    ELSE [self EXCEPT !.left = @ - 1, !.pc = "trainers", !.i = 1]

\* one pass of `for _ in range(num_batches)`: return, or self.step += 1
loop_iter(self) ==
  IF self.left = 0
    THEN [self EXCEPT !.pc = "idle"]
    ELSE [self EXCEPT !.step = @ + 1, !.left = @ - 1, !.pc = "trainers", !.i = 1]

\* one pass of `for t in self.pure_trainers`, for trainer i
trainer_iter(self) ==
  LET t == self.pure_trainers[self.i]
      asked == Append(self.asked, <<t.name, self.step>>)
  IN  IF ~fires(self, t)
        THEN [self EXCEPT !.asked = asked, !.i = @ + 1]
        ELSE
          LET batch == next_batch(t.dataset, self.cursor[t.dataset])
              key == next_key(self)
              drawn == [self EXCEPT !.asked = asked,
                                    !.cursor[t.dataset] = @ + 1,
                                    !.rng = rng_advance(self)]
          IN  IF Raises(self, batch)
                THEN [raise_in_train(drawn) EXCEPT
                        !.draws = Append(@, Draw("sgd", t.name, batch, key,
                                    self.step, self.state, self.state, FALSE))]
                ELSE
                  LET res == sgd_step(t.pure_loss, self.state, batch, key)
                      loss_metrics ==
                        dict_update(res[2],
                          [dataset |-> "train", step |-> self.step,
                           sgd |-> TRUE, trainer |-> t.name])
                  IN  [drawn EXCEPT
                         !.state = res[1],
                         !.log = IF train_log_due(self)
                                   THEN Append(@, loss_metrics) ELSE @,
                         !.i = @ + 1,
                         !.draws = Append(@, Draw("sgd", t.name, batch, key,
                                     self.step, self.state, res[1], TRUE))]

\* after the last trainer: the evaluation round starts if it is due
eval_check(self) ==
  IF eval_due(self)
    THEN [self EXCEPT !.pc = "eval", !.j = 1, !.k = 1]
    ELSE [self EXCEPT !.pc = "loop"]

\* an evaluation that applies an SGD step of the loss it evaluates
eval_iter_trains(self) ==
  LET name == self.eval_datasets[self.j]
      t == self.pure_trainers[self.k]
      batch == next_batch(name, self.cursor[name])
      key == next_key(self)
      lm == pure_loss_call(t.pure_loss, self.state.params, batch, key)
      metrics == dict_update(lm[2],
                   [dataset |-> name, step |-> self.step, sgd |-> FALSE,
                    loss |-> lm[1], trainer |-> t.name])
      lastT == self.k = Len(self.pure_trainers)
      lastD == self.j = Len(self.eval_datasets)
  IN  [self EXCEPT
         !.state = sgd_step(t.pure_loss, self.state, batch, key)[1],
         !.cursor[name] = @ + 1,
         !.rng = rng_advance(self),
         !.log = Append(@, metrics),
         !.draws = Append(@, Draw("eval", t.name, batch, key, self.step,
                                  self.state, self.state, TRUE)),
         !.k = IF lastT THEN 1 ELSE @ + 1,
         !.j = IF lastT THEN @ + 1 ELSE @,
         !.pc = IF lastT /\ lastD THEN "loop" ELSE @]

\* an evaluation round with the loops exchanged: for each trainer, for each
\* evaluation dataset
eval_iter_trainers_outside(self) ==
  LET name == self.eval_datasets[self.j]
      t == self.pure_trainers[self.k]
      batch == next_batch(name, self.cursor[name])
      key == next_key(self)
      lm == pure_loss_call(t.pure_loss, self.state.params, batch, key)
      metrics == dict_update(lm[2],
                   [dataset |-> name, step |-> self.step, sgd |-> FALSE,
                    loss |-> lm[1], trainer |-> t.name])
      lastT == self.k = Len(self.pure_trainers)
      lastD == self.j = Len(self.eval_datasets)
  IN  [self EXCEPT
         !.cursor[name] = @ + 1,
         !.rng = rng_advance(self),
         !.log = Append(@, metrics),
         !.draws = Append(@, Draw("eval", t.name, batch, key, self.step,
                                  self.state, self.state, TRUE)),
         !.j = IF lastD THEN 1 ELSE @ + 1,
         !.k = IF lastD THEN @ + 1 ELSE @,
         !.pc = IF lastT /\ lastD THEN "loop" ELSE @]

\* one pass of the inner evaluation loop: dataset j, trainer k
eval_iter(self) ==
  LET name == self.eval_datasets[self.j]
      t == self.pure_trainers[self.k]
      batch == next_batch(name, self.cursor[name])
      key == next_key(self)
      lm == pure_loss_call(t.pure_loss, self.state.params, batch, key)
      metrics == dict_update(lm[2],
                   [dataset |-> name, step |-> self.step, sgd |-> FALSE,
                    loss |-> lm[1], trainer |-> t.name])
      lastT == self.k = Len(self.pure_trainers)
      lastD == self.j = Len(self.eval_datasets)
  IN  [self EXCEPT
         !.cursor[name] = @ + 1,
         !.rng = rng_advance(self),
         !.log = Append(@, metrics),
         !.draws = Append(@, Draw("eval", t.name, batch, key, self.step,
                                  self.state, self.state, TRUE)),
         !.k = IF lastT THEN 1 ELSE @ + 1,
         !.j = IF lastT THEN @ + 1 ELSE @,
         !.pc = IF lastT /\ lastD THEN "loop" ELSE @]

(***************************************************************************)
(* predict and loss.  `last` records the call and the components of the    *)
(* value it returned.                                                      *)
(***************************************************************************)
\* self._forward(params, inputs, key)
forward(params, inputs, key) ==
  LET index == indexer(key) IN enn_apply(params, inputs, index)

\* a predict that takes its key from the shared stream
predict_from_stream(self, inputs, seed) ==
  [self EXCEPT
     !.rng = @ + 1,
     !.last =
       [op |-> "predict", arg |-> inputs, seed |-> seed,
        ret |-> [out |-> forward(self.state.params, inputs, next_key(self))]]]

predict(self, inputs, seed) ==
  [self EXCEPT !.last =
     [op |-> "predict", arg |-> inputs, seed |-> seed,
      ret |-> [out |-> forward(self.state.params, inputs, PRNGKey(seed))]]]

\* loss returns what the first trainer's pure_loss returns: (loss, metrics)
loss(self, batch, seed) ==
  LET pure_loss == self.pure_trainers[1].pure_loss
      ret == pure_loss_call(pure_loss, self.state.params, batch, PRNGKey(seed))
  IN  [self EXCEPT !.last =
         [op |-> "loss", arg |-> batch, seed |-> seed,
          ret |-> [loss |-> ret[1], metrics |-> ret[2]]]]

(***************************************************************************)
(* The state machine.                                                      *)
(***************************************************************************)
Init ==
  \E trainers \in TrainerLists, seed \in Seeds, freqs \in LogFreqs,
     eval_datasets \in EvalDatasets, bad \in BadBatchSets :
    exp = MultilossExperiment(trainers, seed, freqs[1], eval_datasets,
                              freqs[2], bad)

Train ==
  /\ exp.pc = "idle"
  /\ \E num_batches \in 0..MaxBatches :
       /\ exp.step + num_batches <= MaxStep
       /\ exp' = train(exp, num_batches)

LoopIter ==
  /\ exp.pc = "loop"
  /\ exp' = loop_iter(exp)

TrainerIter ==
  /\ exp.pc = "trainers"
  /\ exp.i <= Len(exp.pure_trainers)
  /\ exp' = trainer_iter(exp)

EvalCheck ==
  /\ exp.pc = "trainers"
  /\ exp.i > Len(exp.pure_trainers)
  /\ exp' = eval_check(exp)

EvalIter ==
  /\ exp.pc = "eval"
  /\ exp' = eval_iter(exp)

Predict ==
  /\ exp.pc = "idle"
  /\ \E inputs \in Inputs, seed \in CallSeeds :
       exp' = predict(exp, inputs, seed)

Loss ==
  /\ exp.pc = "idle"
  /\ \E inputs \in Inputs, seed \in CallSeeds :
       exp' = loss(exp, [ds |-> "user", idx |-> inputs], seed)

Next ==
  \/ Train
  \/ LoopIter
  \/ TrainerIter
  \/ EvalCheck
  \/ EvalIter
  \/ Predict
  \/ Loss

Spec == Init /\ [][Next]_vars

(***************************************************************************)
(* A call of train as a whole: the passes of its loops, one after the      *)
(* other, until the call returns or raises.                                *)
(***************************************************************************)
train_pass(self) ==
  CASE self.pc = "loop" -> loop_iter(self)
    [] self.pc = "trainers" /\ self.i <= Len(self.pure_trainers) ->
         trainer_iter(self)
    [] self.pc = "trainers" /\ self.i > Len(self.pure_trainers) ->
         eval_check(self)
    [] self.pc = "eval" -> eval_iter(self)

RECURSIVE train_run(_)
train_run(self) ==
  IF self.pc = "idle" THEN self ELSE train_run(train_pass(self))

train_call(self, num_batches) == train_run(train(self, num_batches))

(***************************************************************************)
(* Long runs of training alone: seed 0, no evaluation datasets, no calls   *)
(* of predict or loss, the step counter going up to LongSteps.             *)
(***************************************************************************)
InitLong ==
  \E trainers \in TrainerLists, freqs \in LogFreqs, bad \in BadBatchSets :
    exp = MultilossExperiment(trainers, 0, freqs[1], <<>>, freqs[2], bad)

TrainLong ==
  /\ exp.pc = "idle"
  /\ \E num_batches \in 0..MaxBatches :
       /\ exp.step + num_batches <= LongSteps
       /\ exp' = train(exp, num_batches)

NextLong ==
  \/ TrainLong
  \/ LoopIter
  \/ TrainerIter
  \/ EvalCheck

SpecLong == InitLong /\ [][NextLong]_vars

(***************************************************************************)
(* Vocabulary of the properties.                                           *)
(***************************************************************************)
Constructed == exp.pc # "raised"

\* the indices of a sequence whose element satisfies Test
Where(seq, Test(_)) == {n \in 1..Len(seq) : Test(seq[n])}

\* the largest number of a non-empty set of numbers
Last(S) == CHOOSE n \in S : \A m \in S : m <= n

IsSgd(d) == d.op = "sgd"
IsSgdOk(d) == d.op = "sgd" /\ d.ok
IsEval(d) == d.op = "eval"
\* the draws that produced a TrainingState: init and the SGD steps that ran
IsStateDraw(d) == d.op = "init" \/ IsSgdOk(d)

\* the trainer given at construction under a name
TrainerNamed(nm) ==
  CHOOSE t \in {exp.trainers[n] : n \in 1..Len(exp.trainers)} : t.name = nm

\* the step at which a call of train was aborted by a failing SGD step
AbortedAt(s) == \E n \in Where(exp.draws, IsSgd) :
                  ~exp.draws[n].ok /\ exp.draws[n].step = s

(***************************************************************************)
(* C1: in every iteration of train the trainers are taken in the order of  *)
(* the list given at construction; a trainer whose should_train(step) is   *)
(* true draws exactly one batch, from its own dataset, and exactly one key *)
(* from the shared stream, and its SGD step starts from the state left by  *)
(* the previous SGD step (or by init) and its result replaces the shared   *)
(* state before the next trainer is taken.                                 *)
(***************************************************************************)
\* the n-th should_train call is for the trainer at the position, in the
\* constructor's list, that the call has among the calls of its step
AskedInListOrder ==
  \A n \in 1..Len(exp.asked) :
    LET s == exp.asked[n][2]
        pos == Cardinality({m \in 1..n : exp.asked[m][2] = s})
    IN  /\ pos <= Len(exp.trainers)
        /\ exp.asked[n][1] = exp.trainers[pos].name

\* every should_train call that said yes has exactly one SGD draw, and
\* every one that said no has none
OneDrawPerFiring ==
  \A n \in 1..Len(exp.asked) :
    LET nm == exp.asked[n][1]
        s == exp.asked[n][2]
        mine(d) == IsSgd(d) /\ d.trainer = nm /\ d.step = s
    IN  Cardinality(Where(exp.draws, mine)) =
          IF should_train(TrainerNamed(nm).should_train, s) THEN 1 ELSE 0

\* the n-th draw takes the n-th key of the stream, and an SGD draw takes
\* the next batch of its own trainer's dataset
DrawsOwnBatchAndNextKey ==
  \A n \in 1..Len(exp.draws) :
    LET d == exp.draws[n]
        sameDs(e) == e.batch.ds = d.batch.ds
    IN  /\ d.key = key_at(exp.seed, n)
        /\ IsSgd(d) =>
             /\ d.batch.ds = TrainerNamed(d.trainer).dataset
             /\ d.batch.idx =
                  Cardinality({m \in Where(exp.draws, sameDs) : m <= n})

\* each SGD step starts from the state the previous one left, and the
\* shared state is the state the last one left
StateIsThreaded ==
  LET made == Where(exp.draws, IsStateDraw)
  IN  /\ \A n \in made :
           LET before == {m \in made : m < n}
           IN  before # {} => exp.draws[n].pre = exp.draws[Last(before)].post
      /\ made # {} /\ exp.state = exp.draws[Last(made)].post
      /\ \A n \in made :
           IsSgd(exp.draws[n]) =>
             exp.draws[n].post =
               sgd_step(TrainerNamed(exp.draws[n].trainer).loss_fn,
                        exp.draws[n].pre, exp.draws[n].batch,
                        exp.draws[n].key)[1]

C1_TrainersInOrderOnSharedState ==
  Constructed =>
    /\ AskedInListOrder
    /\ OneDrawPerFiring
    /\ DrawsOwnBatchAndNextKey
    /\ StateIsThreaded

\* two trainers have both run an SGD step in one iteration
C1_Witness ==
  /\ Constructed
  /\ \E n \in Where(exp.draws, IsSgdOk) : \E m \in Where(exp.draws, IsSgdOk) :
       /\ n < m
       /\ exp.draws[n].step = exp.draws[m].step
       /\ exp.draws[n].trainer # exp.draws[m].trainer
       /\ exp.draws[m].pre = exp.draws[n].post
       /\ exp.state = exp.draws[m].post


(***************************************************************************)
(* C2: the step counter is 0 after construction and never decreases; it    *)
(* is incremented exactly once per iteration of train's loop, at the loop  *)
(* head, however many trainers fire; when every call of train so far has   *)
(* completed, step is the sum of their num_batches; and should_train is    *)
(* never given a step below 1, the first value it is given being 1.        *)
(***************************************************************************)
StepMovesOnlyAtLoopHead ==
  Constructed =>
    /\ exp'.step >= exp.step
    /\ exp'.step # exp.step =>
         exp.pc = "loop" /\ exp.left > 0 /\ exp'.step = exp.step + 1
    /\ (exp.pc = "loop" /\ exp.left > 0) => exp'.step = exp.step + 1

StepIsSumOfCalls ==
  (Constructed /\ exp.pc = "idle" /\ ~exp.aborted) => exp.step = exp.sumN

AskedFromOne ==
  Constructed =>
    /\ \A n \in 1..Len(exp.asked) : exp.asked[n][2] >= 1
    /\ Len(exp.asked) > 0 => exp.asked[1][2] = 1

C2_StepCounter ==
  /\ (Constructed => exp.step = 0)
  /\ [][StepMovesOnlyAtLoopHead]_vars
  /\ []StepIsSumOfCalls
  /\ []AskedFromOne

\* several calls have completed, and in one iteration two trainers fired
C2_Witness ==
  /\ Constructed /\ exp.pc = "idle" /\ ~exp.aborted
  /\ exp.step = exp.sumN /\ exp.step > MaxBatches
  /\ \E n \in Where(exp.draws, IsSgdOk) : \E m \in Where(exp.draws, IsSgdOk) :
       n < m /\ exp.draws[n].step = exp.draws[m].step

(***************************************************************************)
(* C3 as claimed: a trainer whose should_train is false at every step      *)
(* 1..N never has its dataset read, never draws a key for an SGD step and  *)
(* never has a "train" record under its name, at whatever position of the  *)
(* list it stands, the first included.                                     *)
(***************************************************************************)
NeverUpTo(t, N) == \A s \in 1..N : ~should_train(t.should_train, s)

NoSgdNoTrainRecord(t) ==
  /\ \A n \in Where(exp.draws, IsSgd) : exp.draws[n].trainer # t.name
  /\ \A n \in 1..Len(exp.log) :
       ~(exp.log[n].dataset = "train" /\ exp.log[n].trainer = t.name)

C3_Claimed_DatasetNeverRead ==
  (Constructed /\ exp.step >= 1) =>
    \A p \in 1..Len(exp.pure_trainers) :
      LET t == exp.pure_trainers[p]
      IN  NeverUpTo(t, exp.step) =>
            /\ exp.cursor[t.dataset] = 0
            /\ NoSgdNoTrainRecord(t)

(***************************************************************************)
(* C3 as amended: a trainer whose should_train is false at every step      *)
(* 1..N never draws a key for an SGD step and never has a "train" record   *)
(* under its name, and train never reads its dataset; but the constructor  *)
(* reads one batch of the first trainer's dataset, so that dataset has     *)
(* been read exactly once when the trainer stands first, and never when    *)
(* it stands anywhere else.                                                *)
(***************************************************************************)
C3_DatasetReadOnlyByConstructor ==
  Constructed =>
    \A p \in 1..Len(exp.pure_trainers) :
      LET t == exp.pure_trainers[p]
      IN  NeverUpTo(t, exp.step) =>
            /\ exp.cursor[t.dataset] = IF p = 1 THEN 1 ELSE 0
            /\ \A n \in 1..Len(exp.draws) :
                 exp.draws[n].batch.ds = t.dataset => exp.draws[n].op = "init"
            /\ NoSgdNoTrainRecord(t)

\* a trainer that never trains stands first, the other trainer has trained
\* and logged, and an evaluation round has run
C3_Witness ==
  /\ Constructed /\ exp.step >= 2 /\ Len(exp.pure_trainers) = 2
  /\ NeverUpTo(exp.pure_trainers[1], exp.step)
  /\ exp.cursor[exp.pure_trainers[1].dataset] = 1
  /\ exp.cursor[exp.pure_trainers[2].dataset] >= 2
  /\ \E n \in 1..Len(exp.log) : exp.log[n].dataset = "train"
  /\ \E n \in 1..Len(exp.draws) : IsEval(exp.draws[n])


(***************************************************************************)
(* C4: for every trainer t and step s that train has taken and whose SGD   *)
(* step did not raise, the SGD update of t at s has happened if and only   *)
(* if should_train_t(s), and a record tagged dataset = "train", sgd = true,*)
(* trainer = t.name, step = s has been written if and only if              *)
(* should_train_t(s) and s mod train_log_freq = 0; no other training       *)
(* record exists.  With train_log_freq = 3 and one trainer that always     *)
(* trains, 9 steps leave exactly 3 training records, of steps 3, 6 and 9,  *)
(* and 9 SGD updates.                                                      *)
(***************************************************************************)
IsTrainRecord(r) == r.dataset = "train"

SgdRaised(nm, s) ==
  \E n \in Where(exp.draws, IsSgd) :
    ~exp.draws[n].ok /\ exp.draws[n].trainer = nm /\ exp.draws[n].step = s

TrainRecordIffDue ==
  \A n \in 1..Len(exp.asked) :
    LET nm == exp.asked[n][1]
        s == exp.asked[n][2]
        yes == should_train(TrainerNamed(nm).should_train, s)
        update(d) == IsSgdOk(d) /\ d.trainer = nm /\ d.step = s
        record(r) == /\ r.dataset = "train" /\ r.sgd = TRUE
                     /\ r.trainer = nm /\ r.step = s
    IN  ~SgdRaised(nm, s) =>
          /\ Cardinality(Where(exp.draws, update)) = IF yes THEN 1 ELSE 0
          /\ Cardinality(Where(exp.log, record)) =
               IF yes /\ s % exp.train_log_freq = 0 THEN 1 ELSE 0

TrainRecordsOnlyWhenDue ==
  \A n \in Where(exp.log, IsTrainRecord) :
    LET r == exp.log[n]
    IN  /\ r.sgd = TRUE
        /\ \E q \in 1..Len(exp.asked) : exp.asked[q] = <<r.trainer, r.step>>
        /\ should_train(TrainerNamed(r.trainer).should_train, r.step)
        /\ r.step % exp.train_log_freq = 0
        /\ ~SgdRaised(r.trainer, r.step)

NineStepsThreeRecords ==
  ( /\ Len(exp.pure_trainers) = 1
    /\ exp.pure_trainers[1].should_train = "always"
    /\ exp.train_log_freq = 3
    /\ exp.step = 9 /\ exp.pc = "idle" /\ ~exp.aborted )
  => /\ [n \in 1..Len(exp.log) |-> exp.log[n].step] = <<3, 6, 9>>
     /\ \A n \in 1..Len(exp.log) : IsTrainRecord(exp.log[n])
     /\ Cardinality(Where(exp.draws, IsSgdOk)) = 9

C4_TrainRecordEveryLogFreq ==
  Constructed =>
    /\ TrainRecordIffDue
    /\ TrainRecordsOnlyWhenDue
    /\ NineStepsThreeRecords

\* nine steps of one always-scheduled trainer with train_log_freq = 3
C4_Witness ==
  /\ Constructed
  /\ Len(exp.pure_trainers) = 1
  /\ exp.pure_trainers[1].should_train = "always"
  /\ exp.train_log_freq = 3
  /\ exp.step = 9 /\ exp.pc = "idle" /\ ~exp.aborted
  /\ Len(exp.log) = 3


(***************************************************************************)
(* C5: at every step s with s mod eval_log_freq = 0 and a non-empty        *)
(* evaluation mapping, whose trainers train has all taken, one evaluation  *)
(* round runs after them: for each evaluation dataset, in the mapping's    *)
(* order, and each trainer, in construction order and whatever its         *)
(* should_train says, one batch of that dataset and one key of the stream  *)
(* are drawn and one record tagged sgd = false, dataset = <eval name>,     *)
(* trainer = <name>, step = s is written; at every other step there is no  *)
(* evaluation draw and no evaluation record.  With eval_log_freq = 2, one  *)
(* evaluation dataset and two trainers, 4 steps give 2 rounds, at steps 2  *)
(* and 4, of 2 records each.                                               *)
(***************************************************************************)
\* the (dataset, trainer) pairs of a full evaluation round, in order
EvalRound ==
  LET T == Len(exp.trainers)
  IN  [n \in 1..(Len(exp.eval_datasets) * T) |->
         <<exp.eval_datasets[((n - 1) \div T) + 1],
           exp.trainers[((n - 1) % T) + 1].name>>]

\* the (dataset, trainer) pairs of the evaluation draws of step s, in order
EvalDrawsAt(s) ==
  LET at(d) == IsEval(d) /\ d.step = s
      sel == SelectSeq(exp.draws, at)
  IN  [n \in 1..Len(sel) |-> <<sel[n].batch.ds, sel[n].trainer>>]

\* the (dataset, trainer) pairs of the evaluation records of step s, in order
EvalRecordsAt(s) ==
  LET at(r) == r.sgd = FALSE /\ r.step = s
      sel == SelectSeq(exp.log, at)
  IN  [n \in 1..Len(sel) |-> <<sel[n].dataset, sel[n].trainer>>]

IsPrefix(a, b) == Len(a) <= Len(b) /\ a = SubSeq(b, 1, Len(a))

EvalRoundWhenDue ==
  \A s \in 1..exp.step :
    LET due == Len(exp.eval_datasets) > 0 /\ s % exp.eval_log_freq = 0
        over == s < exp.step \/ exp.pc \in {"loop", "idle"}
        act == EvalDrawsAt(s)
    IN  /\ EvalRecordsAt(s) = act
        /\ (~due \/ AbortedAt(s)) => act = <<>>
        /\ (due /\ ~AbortedAt(s) /\ over) => act = EvalRound
        /\ (due /\ ~over) =>
             /\ IsPrefix(act, EvalRound)
             /\ exp.pc = "trainers" => act = <<>>
             /\ exp.pc = "eval" =>
                  Len(act) = (exp.j - 1) * Len(exp.trainers) + exp.k - 1

\* an evaluation draw takes the next batch of its evaluation dataset and
\* the next key of the stream, after every should_train call of its step
EvalDrawsFresh ==
  \A n \in Where(exp.draws, IsEval) :
    LET d == exp.draws[n]
        sameDs(e) == e.batch.ds = d.batch.ds
        asked(a) == a[2] = d.step
    IN  /\ d.key = key_at(exp.seed, n)
        /\ d.batch.idx = Cardinality({m \in Where(exp.draws, sameDs) : m <= n})
        /\ d.pre = d.post
        /\ Cardinality(Where(exp.asked, asked)) = Len(exp.trainers)
        /\ \A m \in Where(exp.draws, IsSgd) :
             exp.draws[m].step = d.step => m < n

FourStepsTwoRounds ==
  ( /\ exp.eval_log_freq = 2 /\ Len(exp.eval_datasets) = 1
    /\ Len(exp.pure_trainers) = 2
    /\ exp.step = 4 /\ exp.pc = "idle" /\ ~exp.aborted )
  => LET ev(r) == r.sgd = FALSE
         sel == SelectSeq(exp.log, ev)
     IN  /\ [n \in 1..Len(sel) |-> sel[n].step] = <<2, 2, 4, 4>>
         /\ \A n \in 1..Len(sel) : sel[n].dataset = exp.eval_datasets[1]
         /\ EvalDrawsAt(1) = <<>> /\ EvalDrawsAt(3) = <<>>
         /\ Len(EvalDrawsAt(2)) = 2 /\ Len(EvalDrawsAt(4)) = 2

C5_EvalRoundEveryEvalFreq ==
  Constructed =>
    /\ EvalRoundWhenDue
    /\ EvalDrawsFresh
    /\ FourStepsTwoRounds

\* four steps, eval_log_freq = 2, one evaluation dataset, two trainers of
\* which one never trains: two rounds of two records
C5_Witness ==
  /\ Constructed
  /\ exp.eval_log_freq = 2 /\ Len(exp.eval_datasets) = 1
  /\ Len(exp.pure_trainers) = 2
  /\ exp.pure_trainers[2].should_train = "never"
  /\ exp.step = 4 /\ exp.pc = "idle" /\ ~exp.aborted
  /\ Len(EvalRecordsAt(2)) = 2 /\ Len(EvalRecordsAt(4)) = 2


(***************************************************************************)
(* C6: predict and loss change nothing of the experiment: not the position *)
(* of the shared random stream, nor the step counter, the TrainingState,   *)
(* a dataset cursor or the log; so the calls of train between which they   *)
(* are made go on from the very state they would have found without them.  *)
(* Two consecutive predict calls with the same inputs and seed return the  *)
(* same output.                                                            *)
(***************************************************************************)
\* the experiment without the note of the last predict or loss call
Core(self) == [self EXCEPT !.last = NoCall]

PredictLossChangeNothing ==
  (Predict \/ Loss) =>
    /\ Core(exp') = Core(exp)
    /\ exp'.rng = exp.rng /\ exp'.step = exp.step /\ exp'.state = exp.state
    /\ exp'.cursor = exp.cursor /\ exp'.log = exp.log

PredictTwiceSameOutput ==
  ( /\ exp.last.op = "predict" /\ exp'.last.op = "predict"
    /\ exp'.last.arg = exp.last.arg /\ exp'.last.seed = exp.last.seed )
  => exp'.last.ret = exp.last.ret

C6_PredictLossReadOnly ==
  /\ [][PredictLossChangeNothing]_vars
  /\ [][PredictTwiceSameOutput]_vars

\* predict has been called between calls of train
C6_Witness ==
  /\ Constructed /\ exp.step >= 2 /\ exp.rng > 2
  /\ exp.last.op = "predict" /\ exp.last.seed = 7
  /\ exp.last.ret.out =
       forward(exp.state.params, exp.last.arg, PRNGKey(exp.last.seed))

(***************************************************************************)
(* C7: loss(batch, seed) evaluates the first trainer's pure_loss at the    *)
(* current parameters with the key of seed and returns the scalar loss     *)
(* only: the metrics are no part of the value returned.                    *)
(***************************************************************************)
C7_Claimed_LossReturnsScalarOnly ==
  (Constructed /\ exp.last.op = "loss") =>
    /\ exp.last.ret.loss =
         LossValue(exp.trainers[1].loss_fn, exp.state.params, exp.last.arg,
                   PRNGKey(exp.last.seed))
    /\ DOMAIN exp.last.ret = {"loss"}

(***************************************************************************)
(* C9: every key the shared stream hands out is used once: the keys given  *)
(* to the indexer, to init, to each SGD step and to each evaluation are    *)
(* pairwise distinct, k draws give k distinct keys, and each draw moves    *)
(* the position of the stream by exactly one.                              *)
(***************************************************************************)
KeysPairwiseDistinct ==
  Constructed =>
    /\ Len(exp.draws) = exp.rng
    /\ Cardinality({exp.draws[n].key : n \in 1..Len(exp.draws)}) = Len(exp.draws)
    /\ \A n \in 1..Len(exp.draws) :
         exp.draws[n].op \in {"indexer", "init", "sgd", "eval"}
    /\ exp.draws[1].op = "indexer" /\ exp.draws[2].op = "init"

OneKeyPerDraw ==
  Constructed =>
    \/ exp'.rng = exp.rng /\ exp'.draws = exp.draws
    \/ /\ exp'.rng = exp.rng + 1
       /\ Len(exp'.draws) = Len(exp.draws) + 1
       /\ SubSeq(exp'.draws, 1, Len(exp.draws)) = exp.draws

C9_KeysNeverRepeat ==
  /\ []KeysPairwiseDistinct
  /\ [][OneKeyPerDraw]_vars

\* keys were drawn for init, for SGD steps, one of which raised, and for
\* evaluations
C9_Witness ==
  /\ Constructed /\ exp.rng >= 6
  /\ \E n \in 1..Len(exp.draws) : IsSgdOk(exp.draws[n])
  /\ \E n \in 1..Len(exp.draws) : IsSgd(exp.draws[n]) /\ ~exp.draws[n].ok
  /\ \E n \in 1..Len(exp.draws) : IsEval(exp.draws[n])

(***************************************************************************)
(* C10: when an SGD step raises, train ends there: no later trainer and no *)
(* later step of that call is taken, no evaluation of that step runs, and  *)
(* the TrainingState is the one the last SGD step that did not raise       *)
(* returned (or the one of init), parameters and optimizer state together. *)
(***************************************************************************)
\* the step that draws for an SGD step that raises
SgdRaises ==
  /\ exp.pc = "trainers" /\ exp.i <= Len(exp.pure_trainers)
  /\ fires(exp, exp.pure_trainers[exp.i])
  /\ Raises(exp, next_batch(exp.pure_trainers[exp.i].dataset,
                            exp.cursor[exp.pure_trainers[exp.i].dataset]))

RaiseEndsTrain ==
  SgdRaises =>
    /\ exp'.pc = "idle"
    /\ exp'.state = exp.state
    /\ exp'.step = exp.step
    /\ exp'.log = exp.log
    /\ ~exp'.draws[Len(exp'.draws)].ok

\* in a call of train that is running no SGD step has raised
NothingAfterRaise ==
  /\ exp.pc \in {"trainers", "eval"} => ~AbortedAt(exp.step)
  /\ \A n \in Where(exp.draws, IsSgd) :
       ~exp.draws[n].ok =>
         /\ \A m \in 1..Len(exp.draws) :
              m > n => exp.draws[m].step > exp.draws[n].step
         /\ \A q \in 1..Len(exp.asked) :
              exp.asked[q][2] = exp.draws[n].step =>
                \E p \in 1..Len(exp.trainers) :
                  /\ exp.trainers[p].name = exp.asked[q][1]
                  /\ \A r \in 1..Len(exp.trainers) :
                       exp.trainers[r].name = exp.draws[n].trainer => p <= r

\* the shared state is a state that init or an SGD step returned whole
StateIsLastGoodState ==
  LET made == Where(exp.draws, IsStateDraw)
      d == exp.draws[Last(made)]
  IN  /\ exp.state = d.post
      /\ IsSgd(d) =>
           d.post = sgd_step(TrainerNamed(d.trainer).loss_fn, d.pre,
                             d.batch, d.key)[1]
      /\ \A n \in Where(exp.draws, IsSgd) :
           (~exp.draws[n].ok /\ n > Last(made)) => exp.draws[n].pre = exp.state

C10_FailedSgdStepAbortsTrain ==
  /\ [][Constructed => RaiseEndsTrain]_vars
  /\ [](Constructed => NothingAfterRaise /\ StateIsLastGoodState)

\* an SGD step has raised after another had run, and train has ended
C10_Witness ==
  /\ Constructed /\ exp.pc = "idle" /\ exp.aborted
  /\ \E n \in Where(exp.draws, IsSgd) : \E m \in Where(exp.draws, IsSgdOk) :
       /\ m < n /\ ~exp.draws[n].ok
       /\ n = Len(exp.draws)
       /\ exp.state = exp.draws[m].post
       /\ exp.draws[n].trainer = exp.trainers[1].name
       /\ Len(exp.trainers) = 2


(***************************************************************************)
(* C11 as claimed: construction draws exactly one batch, the first of the  *)
(* first trainer's dataset and of no other dataset, and exactly two keys:  *)
(* the first for the indexer, the second for init, which also gets that    *)
(* batch and the index; the optimizer state is made from the parameters    *)
(* and step is 0.  The first SGD step of train uses the third key of the   *)
(* stream and, for the first trainer, the second batch of its dataset.     *)
(***************************************************************************)
ConstructionDraws ==
  LET d1 == exp.draws[1]
      d2 == exp.draws[2]
      batch == [ds |-> exp.trainers[1].dataset, idx |-> 1]
      params == enn_init(key_at(exp.seed, 2), batch,
                         indexer(key_at(exp.seed, 1)))
  IN  /\ Len(exp.draws) >= 2
      /\ d1.op = "indexer" /\ d1.key = key_at(exp.seed, 1) /\ d1.batch = NoBatch
      /\ d2.op = "init" /\ d2.key = key_at(exp.seed, 2) /\ d2.batch = batch
      /\ d2.post = TrainingState(params, optimizer_init(params))
      /\ \A n \in 3..Len(exp.draws) : exp.draws[n].op \in {"sgd", "eval"}
      /\ exp.step = 0 =>
           /\ Len(exp.draws) = 2 /\ exp.rng = 2 /\ exp.log = <<>>
           /\ exp.state = d2.post
           /\ exp.cursor = [d \in AllDatasets |->
                              IF d = exp.trainers[1].dataset THEN 1 ELSE 0]

\* the first SGD draw of a trainer takes the batch after those the
\* constructor took from its dataset
FirstBatchOfTrainers ==
  \A n \in Where(exp.draws, IsSgd) :
    (\A m \in Where(exp.draws, IsSgd) :
       exp.draws[m].trainer = exp.draws[n].trainer => n <= m)
    => exp.draws[n].batch.idx =
         IF exp.draws[n].trainer = exp.trainers[1].name THEN 2 ELSE 1

C11_Claimed_FirstSgdUsesThirdKey ==
  Constructed =>
    /\ ConstructionDraws
    /\ FirstBatchOfTrainers
    /\ \A n \in Where(exp.draws, IsSgd) :
         (\A m \in Where(exp.draws, IsSgd) : n <= m)
         => exp.draws[n].key = key_at(exp.seed, 3)

(***************************************************************************)
(* C11 as amended: construction is as claimed, and so is the first         *)
(* trainer's first SGD batch; the third key of the stream goes to the      *)
(* first draw train makes, which is the first SGD step unless an           *)
(* evaluation round runs before any trainer has fired: the first SGD step  *)
(* uses the key that follows the keys of the evaluations before it.        *)
(***************************************************************************)
C11_ConstructionDrawsOneBatchTwoKeys ==
  Constructed =>
    /\ ConstructionDraws
    /\ FirstBatchOfTrainers
    /\ Len(exp.draws) >= 3 => exp.draws[3].key = key_at(exp.seed, 3)
    /\ \A n \in Where(exp.draws, IsSgd) :
         (\A m \in Where(exp.draws, IsSgd) : n <= m)
         => /\ \A m \in 3..(n - 1) : IsEval(exp.draws[m])
            /\ exp.draws[n].key = key_at(exp.seed, n)

\* two trainers; the first one trained first at step 2, after the
\* evaluation round of step 1
C11_Witness ==
  /\ Constructed /\ Len(exp.trainers) = 2
  /\ \E n \in Where(exp.draws, IsSgd) :
       /\ exp.draws[n].trainer = exp.trainers[1].name
       /\ exp.draws[n].batch.idx = 2
       /\ exp.draws[n].step = 2
       /\ n > 3 /\ IsEval(exp.draws[3])


(***************************************************************************)
(* C12: the constructor given an empty trainer list raises: no experiment  *)
(* without trainers has a step counter of 0, or any step counter, and none *)
(* takes a call of train, predict or loss.                                 *)
(***************************************************************************)
NoTrainersNoExperiment ==
  Len(exp.trainers) = 0 =>
    /\ exp.pc = "raised"
    /\ exp.step # 0 /\ exp.step = -1
    /\ exp.rng = 0 /\ exp.draws = <<>> /\ exp.log = <<>>
    /\ exp.state = NoState
    /\ exp.last = NoCall

NoTrainersNoCall ==
  Len(exp.trainers) = 0 => (~Train /\ ~Predict /\ ~Loss /\ exp' = exp)

C12_EmptyTrainerListRaises ==
  /\ []NoTrainersNoExperiment
  /\ [][NoTrainersNoCall]_vars
  /\ [](Constructed <=> Len(exp.trainers) > 0)

\* the constructor was given no trainer, a dict of evaluation datasets and
\* non-default frequencies
C12_Witness ==
  /\ Len(exp.trainers) = 0 /\ exp.pc = "raised"
  /\ Len(exp.eval_datasets) = 2 /\ exp.train_log_freq = 3


(***************************************************************************)
(* C13: the order of the list does not decide which trainers fire: for     *)
(* the list in either order and every step s whose trainers train has all  *)
(* taken, the set of trainers that ran an SGD step at s is                 *)
(* { t : should_train_t(s) }; the order of their draws of batches and keys *)
(* within the step is the order of the list as given.                      *)
(***************************************************************************)
\* the position of a trainer in the list given to the constructor
PositionOf(nm) ==
  CHOOSE p \in 1..Len(exp.trainers) : exp.trainers[p].name = nm

\* the trainers that ran an SGD step at step s of an experiment
FiredIn(self, s) ==
  {self.draws[n].trainer : n \in {m \in Where(self.draws, IsSgdOk) :
                                    self.draws[m].step = s}}

FiredAt(s) == FiredIn(exp, s)

\* the experiment built from the same trainers in the opposite order and
\* trained, in one call, for as many steps
Reordered ==
  train_call(
    MultilossExperiment(
      [p \in 1..Len(exp.trainers) |-> exp.trainers[Len(exp.trainers) + 1 - p]],
      exp.seed, exp.train_log_freq, exp.eval_datasets, exp.eval_log_freq,
      exp.bad),
    exp.step)

\* the names of the trainers of the SGD draws of an experiment, in order
SgdOrder(self) ==
  LET sel == SelectSeq(self.draws, IsSgdOk)
  IN  [n \in 1..Len(sel) |-> <<sel[n].step, sel[n].trainer>>]

\* when no SGD step raised, the reordered experiment fired the same
\* trainers at every step, drawing in its own order
SameFiringSetReordered ==
  (exp.pc = "idle" /\ exp.last = NoCall /\ ~exp.aborted) =>
    LET twin == Reordered
    IN  ~twin.aborted =>
          /\ twin.step = exp.step
          /\ \A s \in 1..exp.step : FiredIn(twin, s) = FiredIn(exp, s)
          /\ \A s \in 1..exp.step :
               Cardinality(FiredIn(exp, s)) = 2 =>
                 SgdOrder(twin) # SgdOrder(exp)

\* the trainers whose schedule says yes at step s, whatever their order
ScheduledAt(s) ==
  {t.name : t \in {u \in {exp.trainers[p] : p \in 1..Len(exp.trainers)} :
                     should_train(u.should_train, s)}}

\* the trainers of step s have all been taken
TrainersTaken(s) ==
  /\ ~AbortedAt(s)
  /\ \/ s < exp.step
     \/ exp.pc \in {"loop", "idle", "eval"}
     \/ exp.pc = "trainers" /\ exp.i > Len(exp.pure_trainers)

FiringSetIgnoresOrder ==
  \A s \in 1..exp.step :
    /\ FiredAt(s) \subseteq ScheduledAt(s)
    /\ TrainersTaken(s) => FiredAt(s) = ScheduledAt(s)

DrawsFollowListOrder ==
  \A n \in Where(exp.draws, IsSgd) : \A m \in Where(exp.draws, IsSgd) :
    (n < m /\ exp.draws[n].step = exp.draws[m].step) =>
      /\ PositionOf(exp.draws[n].trainer) < PositionOf(exp.draws[m].trainer)
      /\ exp.draws[n].key[2] < exp.draws[m].key[2]

C13_ReorderingKeepsFiringSet ==
  Constructed =>
    /\ FiringSetIgnoresOrder
    /\ DrawsFollowListOrder
    /\ SameFiringSetReordered

\* the list <<B, A>>: both fired at step 2, B drawing before A, and only
\* the always-scheduled one at step 1
C13_Witness ==
  /\ Constructed /\ Len(exp.trainers) = 2
  /\ exp.trainers[1].name = "B" /\ exp.trainers[2].name = "A"
  /\ exp.step >= 2 /\ TrainersTaken(2)
  /\ FiredAt(1) = {"A"} /\ FiredAt(2) = {"A", "B"}
  /\ \E n \in Where(exp.draws, IsSgdOk) :
       /\ exp.draws[n].step = 2 /\ exp.draws[n].trainer = "B"
       /\ n < Len(exp.draws)
       /\ exp.draws[n + 1].step = 2 /\ exp.draws[n + 1].trainer = "A"


(***************************************************************************)
(* C16: splitting a run of training does not change it: for all a, b >= 0  *)
(* whose calls complete, train(a) followed by train(b) leaves the same     *)
(* step counter, TrainingState, stream position and dataset cursors and    *)
(* writes the same records as train(a + b) alone, and train(0) changes     *)
(* nothing; so the experiment after any completed sequence of calls is the *)
(* one a single call for all its steps leaves.                             *)
(***************************************************************************)
\* what a caller can see of an experiment, with the draws it made
Visible(self) ==
  [step |-> self.step, state |-> self.state, rng |-> self.rng,
   cursor |-> self.cursor, log |-> self.log, draws |-> self.draws]

Raised(self) == Cardinality({n \in 1..Len(self.draws) : ~self.draws[n].ok})

\* the experiment as the constructor left it
Fresh ==
  MultilossExperiment(exp.trainers, exp.seed, exp.train_log_freq,
                      exp.eval_datasets, exp.eval_log_freq, exp.bad)

\* predict and loss leave Visible as it is, and train forgets them: the
\* states that differ in `last` alone are taken once
SplitTrainIsOneTrain ==
  (Constructed /\ exp.pc = "idle" /\ exp.last = NoCall) =>
    /\ Visible(train_call(exp, 0)) = Visible(exp)
    /\ \A a \in 0..MaxBatches : \A b \in 0..MaxBatches :
         LET first == train_call(exp, a)
             both == train_call(first, b)
             whole == train_call(exp, a + b)
         IN  Raised(both) = Raised(exp) =>
               /\ Raised(whole) = Raised(exp)
               /\ Visible(both) = Visible(whole)

CallsAddUp ==
  (Constructed /\ exp.pc = "idle" /\ ~exp.aborted) =>
    Visible(exp) = Visible(train_call(Fresh, exp.step))

C16_SplitTrainingIsTheSame ==
  /\ []SplitTrainIsOneTrain
  /\ []CallsAddUp

\* more steps than one call may take, all completed, with records of
\* training and of evaluations in the log
C16_Witness ==
  /\ Constructed /\ exp.pc = "idle" /\ ~exp.aborted
  /\ exp.step > MaxBatches /\ exp.train_log_freq = 3
  /\ \E n \in 1..Len(exp.log) : exp.log[n].dataset = "train"
  /\ \E n \in 1..Len(exp.log) : exp.log[n].sgd = FALSE
  /\ Visible(exp) = Visible(train_call(Fresh, exp.step))


(***************************************************************************)
(* C14: an evaluation round changes neither the TrainingState, nor the     *)
(* step counter, nor the cursor of a trainer's dataset: after a step the   *)
(* parameters and the optimizer state are those the last SGD step left,    *)
(* and every evaluation of the round computes its loss at those            *)
(* parameters.  An evaluation moves only the cursor of its evaluation      *)
(* dataset, the shared stream and the log, each by one.                    *)
(***************************************************************************)
TrainerDatasets == {exp.trainers[p].dataset : p \in 1..Len(exp.trainers)}

\* the pass that decides whether the round runs changes nothing
EvalCheckChangesNothing ==
  (exp.pc = "trainers" /\ exp.i > Len(exp.pure_trainers)) =>
    Visible(exp') = Visible(exp)

\* one evaluation of the round
EvalChangesOnlyItsOwn ==
  exp.pc = "eval" =>
    LET name == exp.eval_datasets[exp.j]
        t == exp.trainers[exp.k]
        d == exp'.draws[Len(exp'.draws)]
        r == exp'.log[Len(exp'.log)]
    IN  /\ exp'.state = exp.state
        /\ exp'.step = exp.step
        /\ \A ds \in AllDatasets \ {name} : exp'.cursor[ds] = exp.cursor[ds]
        /\ name \notin TrainerDatasets
        /\ exp'.cursor[name] = exp.cursor[name] + 1
        /\ exp'.rng = exp.rng + 1
        /\ Len(exp'.draws) = Len(exp.draws) + 1
        /\ Len(exp'.log) = Len(exp.log) + 1
        /\ SubSeq(exp'.log, 1, Len(exp.log)) = exp.log
        /\ exp'.asked = exp.asked /\ exp'.aborted = exp.aborted
        /\ d.op = "eval" /\ d.trainer = t.name /\ d.batch.ds = name
        /\ r.sgd = FALSE /\ r.trainer = t.name
        /\ r.loss = LossValue(t.loss_fn, exp.state.params, d.batch, d.key)

\* during and after the round the state is the one the last SGD step left
EvalReadsLastSgdState ==
  (Constructed /\ exp.pc \in {"eval", "loop", "idle"}) =>
    LET made == Where(exp.draws, IsStateDraw)
        after(d) == IsEval(d) /\ d.step = exp.step
    IN  /\ exp.state = exp.draws[Last(made)].post
        /\ \A n \in Where(exp.draws, after) :
             /\ n > Last(made)
             /\ exp.draws[n].pre = exp.state

C14_EvalRoundChangesNoState ==
  /\ [][EvalCheckChangesNothing]_vars
  /\ [][EvalChangesOnlyItsOwn]_vars
  /\ []EvalReadsLastSgdState

\* a round over two evaluation datasets and two trainers has ended, after
\* an SGD step of the same step
C14_Witness ==
  /\ Constructed /\ exp.pc = "loop"
  /\ Len(exp.eval_datasets) = 2 /\ Len(exp.trainers) = 2
  /\ Len(EvalDrawsAt(exp.step)) = 4
  /\ \E n \in Where(exp.draws, IsSgdOk) :
       exp.draws[n].step = exp.step /\ exp.state = exp.draws[n].post


(***************************************************************************)
(* C15: in every record that train writes the "loss" entry is the scalar   *)
(* loss of that SGD step or evaluation, also when the raw metrics of the   *)
(* loss function hold a "loss" entry of their own; the tags dataset, step, *)
(* sgd and trainer overwrite the raw entries of the same names, and the    *)
(* other raw entries are kept.                                             *)
(***************************************************************************)
Tags == {"dataset", "step", "sgd", "trainer"}

\* what the loss function returned for the draw d
RawOf(d) ==
  pure_loss_call(TrainerNamed(d.trainer).loss_fn, d.pre.params, d.batch, d.key)

\* the record r is the raw metrics of the draw d under the loss and the tags
RecordOf(r, d) ==
  LET raw == RawOf(d)
  IN  /\ r.loss = raw[1]
      /\ r.step = d.step
      /\ r.trainer = d.trainer
      /\ r.sgd = (d.op = "sgd")
      /\ r.dataset = IF d.op = "sgd" THEN "train" ELSE d.batch.ds
      /\ DOMAIN r = DOMAIN raw[2] \cup Tags \cup {"loss"}
      /\ \A k \in DOMAIN raw[2] \ (Tags \cup {"loss"}) : r[k] = raw[2][k]

\* the raw metrics of d hold a "loss" and tags that differ from the record's
RawDisagrees(r, d) ==
  LET raw == RawOf(d)
  IN  /\ Tags \cup {"loss"} \subseteq DOMAIN raw[2]
      /\ raw[2].loss # r.loss
      /\ raw[2].step # r.step
      /\ raw[2].trainer # r.trainer
      /\ raw[2].sgd # r.sgd
      /\ raw[2].dataset # r.dataset

RecordWrittenIsRecordOfDraw ==
  Len(exp'.log) > Len(exp.log) =>
    /\ Len(exp'.log) = Len(exp.log) + 1
    /\ Len(exp'.draws) = Len(exp.draws) + 1
    /\ RecordOf(exp'.log[Len(exp'.log)], exp'.draws[Len(exp'.draws)])
    /\ exp'.draws[Len(exp'.draws)].step = exp'.step

C15_LossAndTagsOverwriteRawMetrics == [][RecordWrittenIsRecordOfDraw]_vars

\* the last draw wrote the last record, over raw metrics that disagree with
\* it in "loss" and in every tag; both a training and an evaluation record
\* of that kind are in the log
C15_Witness ==
  /\ Constructed /\ exp.log # <<>>
  /\ RecordOf(exp.log[Len(exp.log)], exp.draws[Len(exp.draws)])
  /\ RawDisagrees(exp.log[Len(exp.log)], exp.draws[Len(exp.draws)])
  /\ exp.log[Len(exp.log)].sgd = FALSE
  /\ \E n \in 1..Len(exp.log) :
       /\ exp.log[n].sgd = TRUE /\ exp.log[n].trainer = "B"
       /\ "acc" \in DOMAIN exp.log[n]


(***************************************************************************)
(* C17: the position of the shared random stream is accounted for by the   *)
(* schedule.  After construction and train calls that completed, at step N *)
(* the number of keys drawn is 2, plus one for every (step, trainer) with  *)
(* 1 <= step <= N and should_train true, plus E * T for every step in 1..N *)
(* that is a multiple of eval_log_freq, with T trainers and E evaluation   *)
(* datasets.  So the key of an SGD step depends on whether evaluation      *)
(* datasets are configured; which trainers fire does not.                  *)
(***************************************************************************)
\* the (step, trainer position) pairs up to step N whose schedule is true
Scheduled(N) ==
  {<<s, p>> \in (1..N) \X (1..Len(exp.trainers)) :
     should_train(exp.trainers[p].should_train, s)}

\* the steps up to N that are a multiple of eval_log_freq
EvalSteps(N) == {s \in 1..N : s % exp.eval_log_freq = 0}

KeysDrawn(N) ==
  2 + Cardinality(Scheduled(N))
    + Len(exp.eval_datasets) * Len(exp.trainers) * Cardinality(EvalSteps(N))

\* no call of train was ended by an exception
Completed == exp.pc = "idle" /\ Raised(exp) = 0

StreamPositionIsSchedule ==
  (Constructed /\ Completed) =>
    /\ exp.rng = KeysDrawn(exp.step)
    /\ Len(exp.draws) = exp.rng

\* the same experiment without evaluation datasets, trained to the same step
WithoutEval ==
  train_call(MultilossExperiment(exp.trainers, exp.seed, exp.train_log_freq,
                                 <<>>, exp.eval_log_freq, exp.bad), exp.step)

\* the SGD draws of an experiment, in order
SgdDraws(self) == SelectSeq(self.draws, IsSgd)

\* without evaluation datasets the same trainers fire at the same steps, on
\* the same batches, and each key is earlier in the stream by the keys of
\* the evaluation rounds before it
EvalShiftsKeysOnly ==
  (Constructed /\ Completed) =>
    LET mine == SgdDraws(exp)
        other == SgdDraws(WithoutEval)
    IN  /\ Len(other) = Len(mine)
        /\ \A n \in 1..Len(mine) :
             /\ other[n].trainer = mine[n].trainer
             /\ other[n].step = mine[n].step
             /\ other[n].batch = mine[n].batch
             /\ KeyNum(mine[n].key) = KeyNum(other[n].key)
                  + Len(exp.eval_datasets) * Len(exp.trainers)
                      * Cardinality(EvalSteps(mine[n].step - 1))

C17_StreamPositionFollowsSchedule ==
  []StreamPositionIsSchedule /\ []EvalShiftsKeysOnly

\* four completed steps of two trainers, one of which fires at even steps,
\* with evaluation rounds on two datasets at steps 2 and 4: 2 + 6 + 8 keys,
\* and the last SGD step took another key than it takes without evaluation
C17_Witness ==
  /\ Constructed /\ Completed /\ exp.step = 4
  /\ Len(exp.trainers) = 2 /\ Len(exp.eval_datasets) = 2
  /\ exp.eval_log_freq = 2
  /\ Cardinality(Scheduled(4)) = 6
  /\ exp.rng = 16
  /\ SgdDraws(exp)[6].key # SgdDraws(WithoutEval)[6].key


(***************************************************************************)
(* C18: the log is ordered by step and, within a step, by phase.  The step *)
(* of successive records never decreases; within a step every training     *)
(* record precedes every evaluation record, the training records are in    *)
(* the order of the trainers at construction, and the evaluation records   *)
(* are grouped by evaluation dataset, in the order of the trainers within  *)
(* each group.                                                             *)
(***************************************************************************)
\* the position of an evaluation dataset in the order of eval_datasets
DatasetPosition(name) ==
  CHOOSE j \in 1..Len(exp.eval_datasets) : exp.eval_datasets[j] = name

\* step, phase, group and trainer of a record
Rank(r) ==
  <<r.step,
    IF r.sgd THEN 0 ELSE 1,
    IF r.sgd THEN 0 ELSE DatasetPosition(r.dataset),
    PositionOf(r.trainer)>>

\* the lexicographic order of ranks
Before(a, b) ==
  \E n \in 1..4 : a[n] < b[n] /\ \A m \in 1..(n - 1) : a[m] = b[m]

LogIsOrdered ==
  Constructed =>
    /\ \A n \in 1..(Len(exp.log) - 1) :
         /\ exp.log[n].step <= exp.log[n + 1].step
         /\ Before(Rank(exp.log[n]), Rank(exp.log[n + 1]))
    /\ \A n \in 1..Len(exp.log) :
         /\ exp.log[n].sgd => exp.log[n].dataset = "train"
         /\ ~exp.log[n].sgd =>
              \E j \in 1..Len(exp.eval_datasets) :
                exp.eval_datasets[j] = exp.log[n].dataset

C18_LogOrderedByStepAndPhase == []LogIsOrdered

\* the six records of one step of two trainers and two evaluation datasets:
\* A, B trained, then e1 with A, B, then e2 with A, B
C18_Witness ==
  /\ Constructed /\ Len(exp.log) >= 6
  /\ LET n == Len(exp.log) - 6
         r(m) == exp.log[n + m]
     IN  /\ \A m \in 1..6 : r(m).step = exp.step
         /\ r(1).sgd /\ r(2).sgd
         /\ \A m \in 3..6 : ~r(m).sgd
         /\ r(3).dataset = r(4).dataset /\ r(5).dataset = r(6).dataset
         /\ r(4).dataset # r(5).dataset
         /\ r(3).trainer = r(1).trainer /\ r(4).trainer = r(2).trainer
         /\ r(5).trainer = r(1).trainer /\ r(6).trainer = r(2).trainer
         /\ r(1).trainer # r(2).trainer


(***************************************************************************)
(* C19: a failed SGD step is rolled back no further than the               *)
(* TrainingState.  When the SGD step of trainer t fails at step s the step *)
(* counter stays at s, and the batch drawn from the dataset of t and the   *)
(* key drawn from the shared stream stay consumed; a later call of train   *)
(* goes on at step s + 1 and runs neither step s again nor the trainers    *)
(* that step s had not reached.                                            *)
(***************************************************************************)
RaiseKeepsWhatItDrew ==
  SgdRaises =>
    LET t == exp.pure_trainers[exp.i]
        d == exp'.draws[Len(exp'.draws)]
    IN  /\ exp'.step = exp.step
        /\ exp'.cursor[t.dataset] = exp.cursor[t.dataset] + 1
        /\ \A ds \in AllDatasets \ {t.dataset} :
             exp'.cursor[ds] = exp.cursor[ds]
        /\ exp'.rng = exp.rng + 1
        /\ Len(exp'.draws) = Len(exp.draws) + 1
        /\ d.batch = next_batch(t.dataset, exp.cursor[t.dataset])
        /\ d.key = next_key(exp)
        /\ d.step = exp.step /\ d.trainer = t.name

\* the draws and the trainers taken by one more step of train
DrawnAfter(self) ==
  LET after == train_call(self, 1)
  IN  [step |-> after.step,
       draws |-> SubSeq(after.draws, Len(self.draws) + 1, Len(after.draws)),
       asked |-> SubSeq(after.asked, Len(self.asked) + 1, Len(after.asked))]

\* after a failure at step s the next call runs step s + 1, from the first
\* trainer, on batches and keys other than those of the failed step
NextCallGoesOn ==
  (Constructed /\ exp.pc = "idle" /\ AbortedAt(exp.step)) =>
    LET failed == exp.draws[Len(exp.draws)]
        next == DrawnAfter(exp)
    IN  /\ ~failed.ok /\ failed.step = exp.step
        /\ next.step = exp.step + 1
        /\ next.asked # <<>>
        /\ next.asked[1] = <<exp.trainers[1].name, exp.step + 1>>
        /\ \A q \in 1..Len(next.asked) : next.asked[q][2] = exp.step + 1
        /\ \A n \in 1..Len(next.draws) :
             /\ next.draws[n].step = exp.step + 1
             /\ next.draws[n].key # failed.key
             /\ next.draws[n].batch # failed.batch

\* no trainer is taken twice at a step, and no batch and no key comes twice
NothingRunsTwice ==
  Constructed =>
    /\ \A p, q \in 1..Len(exp.asked) : p < q => exp.asked[p] # exp.asked[q]
    /\ \A m, n \in 1..Len(exp.draws) :
         (m < n /\ exp.draws[m].batch # NoBatch) =>
           exp.draws[m].batch # exp.draws[n].batch

C19_FailedStepStaysConsumed ==
  /\ [][RaiseKeepsWhatItDrew]_vars
  /\ []NextCallGoesOn
  /\ []NothingRunsTwice

\* the first of two trainers failed at a step, and a later call ran the next
\* step: the same trainer on the next batch of its dataset with the next key
C19_Witness ==
  /\ Constructed /\ exp.pc = "idle" /\ Len(exp.trainers) = 2
  /\ \E n \in Where(exp.draws, IsSgd) :
       /\ ~exp.draws[n].ok /\ n < Len(exp.draws)
       /\ exp.draws[n].trainer = exp.trainers[1].name
       /\ exp.draws[n + 1].op = "sgd" /\ exp.draws[n + 1].ok
       /\ exp.draws[n + 1].trainer = exp.draws[n].trainer
       /\ exp.draws[n + 1].step = exp.draws[n].step + 1
       /\ exp.draws[n + 1].batch.ds = exp.draws[n].batch.ds
       /\ exp.draws[n + 1].batch.idx = exp.draws[n].batch.idx + 1
       /\ exp.draws[n + 1].key = key_at(exp.seed, n + 1)
       /\ exp.draws[n].key = key_at(exp.seed, n)
       /\ ~\E q \in 1..Len(exp.asked) :
            exp.asked[q] = <<exp.trainers[2].name, exp.draws[n].step>>

====
